---- MODULE Spec2Model ----
(***************************************************************************)
(* Model of generate_app_icons.py: colour interpolation (lerp_color), the  *)
(* per-pixel radial gradient with its integer "over" compositing           *)
(* (draw_radial_gradient) and the three variant generators.                *)
(*                                                                         *)
(* Floating point.  The code computes t = min(sqrt(dx*dx+dy*dy)/radius,1)  *)
(* squared, in IEEE doubles, and truncates products of t with int().  The  *)
(* model carries t as the rational num/den together with a flag `exact`    *)
(* telling whether the double equals that rational (dist is an exact       *)
(* square root and dist/radius is dyadic).  int() of an inexact double     *)
(* whose rational value is not an integer is the truncation of the         *)
(* rational; when the rational value is an integer q the double may lie    *)
(* just below it, and int() then gives q-1.  Which of the two happens is   *)
(* fixed by the inputs but not derivable without double arithmetic; the    *)
(* variable fperr fixes it per behaviour for each truncation site.         *)
(***************************************************************************)
EXTENDS Integers, Sequences, FiniteSets, TLC

VARIABLES
    lerpCall,   \* one call of lerp_color: arguments and result
    comp,       \* one execution of the compositing step: inputs and written pixel
    img,        \* the pixel grid draw_radial_gradient works on: [x, y] -> pixel
    gargs,      \* arguments of the running draw_radial_gradient call
    gpos,       \* index of the next pixel of the row-major scan
    gpc,        \* "run", "done" or "raised"
    glast,      \* what the last loop iteration computed (t, paint, a)
    fperr,      \* outcome of inexact float truncations, per site
    pal,        \* the module-level constants SIZE, TEAL, INDIGO, ...
    cur,        \* the generator call in progress (or "none") and its position
    canvases,   \* the Images the running generator has created
    rendered,   \* per variant, the image its generator last returned
    ncalls,     \* number of generator calls started
    spine,      \* one call of draw_spine_icon: colours, loop index, draws made
    main        \* main(): its position, the files written, the failure if any

vars == <<lerpCall, comp, img, gargs, gpos, gpc, glast, fperr, pal, cur,
          canvases, rendered, ncalls, spine, main>>

lerpVars == <<lerpCall>>
compVars == <<comp>>
gradVars == <<img, gargs, gpos, gpc, glast>>
pipeVars == <<pal, cur, canvases, rendered, ncalls>>
spineVars == <<spine>>
mainVars == <<main>>

----------------------------------------------------------------------------
(* Bounds of the model *)

NSamples == 3      \* channel values sampled: 255*i \div NSamples
MaxDim == 3        \* gradient canvases are up to MaxDim x MaxDim
MaxRadius == 3     \* radii range over -1 .. MaxRadius
MaxCalls == 3      \* generator calls in one behaviour

----------------------------------------------------------------------------
(* Module-level constants of the program *)

SIZE == 1024
TEAL == <<20, 184, 166>>
INDIGO == <<99, 102, 241>>
DARK_BG == <<8, 20, 30>>
DARK_BG2 == <<10, 30, 42>>
WHITE == <<255, 255, 255>>

BLACK == <<0, 0, 0>>
Idle == [idle |-> TRUE]

ChanSamples == {(255 * i) \div NSamples : i \in 0..NSamples}
AlphaSamples == ChanSamples \cup {1, 2, 128, 254}
Greys == {<<s, s, s>> : s \in ChanSamples}
PaletteColors == {TEAL, INDIGO, DARK_BG, DARK_BG2, WHITE, BLACK}
Colors == PaletteColors \cup Greys

----------------------------------------------------------------------------
(* Arithmetic *)

Abs(n) == IF n < 0 THEN -n ELSE n

\* Python int() of the rational n/d (d > 0): truncation toward zero.
IntTrunc(n, d) == IF n >= 0 THEN n \div d ELSE -((-n) \div d)

\* int() of a double whose rational value is n/d.  `exact`: the double is
\* that rational.  `lose`: an inexact double with an integral rational value
\* lies on the zero side of it.
FloatInt(n, d, exact, lose) ==
    LET q == IntTrunc(n, d)
    IN  IF exact \/ n % d # 0 \/ ~lose \/ q = 0 THEN q
        ELSE IF q > 0 THEN q - 1 ELSE q + 1

RECURSIVE Gcd(_, _)
Gcd(a, b) == IF b = 0 THEN a ELSE Gcd(b, a % b)

RECURSIVE IsPow2(_)
IsPow2(n) == IF n = 1 THEN TRUE
             ELSE IF n < 1 \/ n % 2 # 0 THEN FALSE
             ELSE IsPow2(n \div 2)

\* k / m is computed exactly by double division (k, m small integers, m # 0).
DyadicQuotient(k, m) == IsPow2(Abs(m) \div Gcd(Abs(k), Abs(m)))

\* The rational num/den as a float parameter.
Rat(num, den) == [num |-> num, den |-> den, exact |-> DyadicQuotient(num, den)]

----------------------------------------------------------------------------
(* lerp_color *)

LerpChannelSwapped(a, b, t, lose) ==
    FloatInt(b * t.den + (b - a) * t.num, t.den, t.exact \/ a = b, lose)

\* int(a + (b - a) * t)
LerpChannel(a, b, t, lose) ==
    FloatInt(a * t.den + (b - a) * t.num, t.den, t.exact \/ a = b, lose)

lerp_color(c1, c2, t, lose) ==
    [i \in 1..3 |-> LerpChannel(c1[i], c2[i], t, lose)]

----------------------------------------------------------------------------
(* The compositing step of draw_radial_gradient *)

OutAlphaShift(ea, a) == a + (ea * (255 - a)) \div 256

\* out_a = a + ea * (255 - a) // 255
OutAlpha(ea, a) == a + (ea * (255 - a)) \div 255

OutChannelEarlyFloor(c, ec, ea, a) ==
    (c * a + ec * ((ea * (255 - a)) \div 255)) \div OutAlpha(ea, a)

OutChannelNoInverse(c, ec, ea, a) ==
    (c * a + (ec * ea * a) \div 255) \div OutAlpha(ea, a)

\* (c * a + ec * ea * (255 - a) // 255) // out_a
OutChannel(c, ec, ea, a) ==
    (c * a + (ec * ea * (255 - a)) \div 255) \div OutAlpha(ea, a)

\* The tuple assigned to px[x, y] for existing pixel e and paint (p, a).
Composite(e, p, a) ==
    LET out_a == OutAlpha(e[4], a)
    IN  IF out_a > 0
        THEN <<OutChannel(p[1], e[1], e[4], a),
               OutChannel(p[2], e[2], e[4], a),
               OutChannel(p[3], e[3], e[4], a),
               out_a>>
        ELSE <<0, 0, 0, out_a>>

----------------------------------------------------------------------------
(* draw_radial_gradient: the per-pixel computation *)

\* dist / radius and its square are exact doubles: dist = sqrt(d2) is an
\* integer k and k / radius is dyadic.
ExactT(d2, radius) ==
    \/ d2 = 0
    \/ \E k \in 1..d2 : k * k = d2 /\ DyadicQuotient(k, radius)

TParamNoMin(d2, radius) ==
    [num |-> d2, den |-> radius * radius, exact |-> ExactT(d2, radius)]

\* t = min(dist / radius, 1.0); t = t * t   (radius # 0).  For radius < 0
\* the quotient is <= 0, min() keeps it, and its square is not capped.
TParam(d2, radius) ==
    IF radius > 0 /\ d2 >= radius * radius
    THEN [num |-> 1, den |-> 1, exact |-> TRUE]
    ELSE [num |-> d2, den |-> radius * radius, exact |-> ExactT(d2, radius)]

PaintAlphaRound(alpha, t, lose) ==
    (2 * alpha * (t.den - t.num) + t.den) \div (2 * t.den)

PaintAlphaOfT(alpha, t, lose) ==
    FloatInt(alpha * t.num, t.den, t.exact, lose)

\* a = int(alpha * (1 - t))
PaintAlpha(alpha, t, lose) ==
    FloatInt(alpha * (t.den - t.num), t.den, t.exact, lose)

\* One iteration of the loop body at pixel (x, y) holding e: what it
\* computes and the tuple it assigns to px[x, y].
PixelStep(x, y, e, g, fp) ==
    LET dx == x - g.cx
        dy == y - g.cy
        t == TParam(dx * dx + dy * dy, g.radius)
        paint == lerp_color(g.color_center, g.color_edge, t, fp.lerp)
        a == PaintAlpha(g.alpha, t, fp.alpha)
    IN  [x |-> x, y |-> y, t |-> t, paint |-> paint, a |-> a, before |-> e,
         out |-> Composite(e, paint, a)]

----------------------------------------------------------------------------
(* Values the variables of the other specifications keep *)

NoFpErr == [lerp |-> FALSE, alpha |-> FALSE]
FpErrs == [lerp : BOOLEAN, alpha : BOOLEAN]

LerpIdle == lerpCall = Idle
CompIdle == comp = Idle
GradIdle == img = Idle /\ gargs = Idle /\ gpos = 0 /\ gpc = "idle" /\ glast = Idle
PipeIdle == /\ pal = Idle /\ cur = Idle /\ canvases = <<>>
            /\ rendered = Idle /\ ncalls = 0
SpineIdle == spine = Idle
MainIdle == main = Idle

----------------------------------------------------------------------------
(* SpecLerp: calls of lerp_color with the parameters the program uses:     *)
(* angle_deg / 360 for the accent dots, i / 6 for the vertebrae, and the   *)
(* end points.                                                             *)

LerpTs == {Rat(i, 4) : i \in 0..4} \cup {Rat(i, 6) : i \in 0..6} \cup {Rat(1, 2)}

InitLerp ==
    /\ lerpCall \in [c1 : Colors, c2 : Colors, t : LerpTs, out : {<<>>}]
    /\ fperr \in [lerp : BOOLEAN, alpha : {FALSE}]
    /\ CompIdle /\ GradIdle /\ PipeIdle /\ SpineIdle /\ MainIdle

LerpCall ==
    /\ lerpCall.out = <<>>
    /\ lerpCall' = [lerpCall EXCEPT
                      !.out = lerp_color(lerpCall.c1, lerpCall.c2, lerpCall.t,
                                         fperr.lerp)]
    /\ UNCHANGED <<fperr, compVars, gradVars, pipeVars, spineVars, mainVars>>

NextLerp == LerpCall

SpecLerp == InitLerp /\ [][NextLerp]_vars

----------------------------------------------------------------------------
(* SpecComposite: one execution of the compositing step (lines 53-63) on   *)
(* an existing pixel, a paint colour and a paint alpha, all in 0..255.     *)

Pixels == {<<c[1], c[2], c[3], ea>> : c \in Colors, ea \in AlphaSamples}

InitComposite ==
    /\ comp \in [exist : Pixels, paint : Colors, a : AlphaSamples, out : {<<>>}]
    /\ fperr = NoFpErr
    /\ LerpIdle /\ GradIdle /\ PipeIdle /\ SpineIdle /\ MainIdle

CompositeStep ==
    /\ comp.out = <<>>
    /\ comp' = [comp EXCEPT !.out = Composite(comp.exist, comp.paint, comp.a)]
    /\ UNCHANGED <<fperr, lerpVars, gradVars, pipeVars, spineVars, mainVars>>

NextComposite == CompositeStep

SpecComposite == InitComposite /\ [][NextComposite]_vars

----------------------------------------------------------------------------
(* SpecGradient: one call of draw_radial_gradient on a w x h image filled  *)
(* with one pixel value; one action per iteration of the nested loop.      *)

Coords(w, h) == (0..(w - 1)) \X (0..(h - 1))

\* Image.new("RGBA", (w, h), fill)
NewImage(w, h, fill) == [p \in Coords(w, h) |-> fill]

PeakAlphas == {0, 1, 80, 255}
GradientColors == {<<TEAL, DARK_BG>>, <<WHITE, BLACK>>, <<DARK_BG, TEAL>>}
Fills == {<<0, 0, 0, 0>>, <<8, 20, 30, 255>>, <<99, 102, 241, 255>>,
          <<255, 255, 255, 1>>}
Centers(w, h) == {<<0, 0>>, <<w \div 2, h \div 2>>, <<w - 1, 0>>}

GradientArgs ==
    { [w |-> MaxDim, h |-> h, cx |-> c[1], cy |-> c[2], radius |-> r,
       color_center |-> cc[1], color_edge |-> cc[2], alpha |-> al, fill |-> f] :
         h \in {MaxDim - 1, MaxDim}, c \in Centers(MaxDim, MaxDim - 1),
         r \in (-1)..MaxRadius, cc \in GradientColors, al \in PeakAlphas,
         f \in Fills }

InitGradient ==
    /\ gargs \in GradientArgs
    /\ img = NewImage(gargs.w, gargs.h, gargs.fill)
    /\ gpos = 0
    /\ gpc = "run"
    /\ glast = Idle
    /\ fperr \in FpErrs
    /\ LerpIdle /\ CompIdle /\ PipeIdle /\ SpineIdle /\ MainIdle

\* Lines 46-63 for the next pixel of the scan (y outer, x inner).
GradientPixel ==
    /\ gpc = "run"
    /\ gpos < gargs.w * gargs.h
    /\ gargs.radius # 0
    /\ LET x == gpos % gargs.w
           y == gpos \div gargs.w
           st == PixelStep(x, y, img[<<x, y>>], gargs, fperr)
       IN  /\ img' = [img EXCEPT ![<<x, y>>] = st.out]
           /\ glast' = st
    /\ gpos' = gpos + 1
    /\ UNCHANGED <<gargs, gpc, fperr, lerpVars, compVars, pipeVars, spineVars, mainVars>>

\* Line 48 with radius = 0: dist / radius raises ZeroDivisionError.
GradientRaise ==
    /\ gpc = "run"
    /\ gpos < gargs.w * gargs.h
    /\ gargs.radius = 0
    /\ gpc' = "raised"
    /\ UNCHANGED <<img, gargs, gpos, glast, fperr, lerpVars, compVars, pipeVars,
                   spineVars, mainVars>>

\* The loops are exhausted: the function returns.
GradientReturn ==
    /\ gpc = "run"
    /\ gpos = gargs.w * gargs.h
    /\ gpc' = "done"
    /\ UNCHANGED <<img, gargs, gpos, glast, fperr, lerpVars, compVars, pipeVars,
                   spineVars, mainVars>>

NextGradient == GradientPixel \/ GradientRaise \/ GradientReturn

SpecGradient == InitGradient /\ [][NextGradient]_vars

----------------------------------------------------------------------------
(* The variant generators.  A generator is the sequence of calls it makes  *)
(* on images: Image.new, draw_radial_gradient, Image.alpha_composite and   *)
(* the ImageDraw primitives.  The imaging library is not part of the       *)
(* program: an image is kept as the pixel grid the program itself computed *)
(* (px) followed by the log of library drawing calls applied to it, each   *)
(* with the fill colour and the parameters the program passed.             *)

Fill(c, a) == <<c[1], c[2], c[3], a>>

Op(prim, target, part, idx, fill, geom) ==
    [prim |-> prim, target |-> target, part |-> part, idx |-> idx,
     fill |-> fill, geom |-> geom]

\* Image.new(size, near + (255,)) and the row loop: one opaque horizontal
\* line per y, coloured lerp_color(near, far, y / size).
BackgroundOps(size, near, far, fp) ==
    <<Op("new", "img", "background", 0, Fill(near, 255), <<size, size>>)>>
    \o [k \in 1..size |->
          Op("line", "img", "background", k - 1,
             Fill(lerp_color(near, far, Rat(k - 1, size), fp.lerp), 255),
             <<0, k - 1, size, k - 1>>)]

GlowOpsInPlace(size, color_center, color_edge, alpha) ==
    <<Op("draw_radial_gradient", "img", "glow", 0, Fill(color_center, alpha),
         [cx |-> size \div 2, cy |-> size \div 2, radius |-> size \div 3,
          color_edge |-> color_edge])>>

\* glow = Image.new(...); draw_radial_gradient(glow, (cx, cy), size // 3, ...);
\* img = Image.alpha_composite(img, glow)
GlowOps(size, color_center, color_edge, alpha) ==
    <<Op("new", "glow", "glow", 0, <<0, 0, 0, 0>>, <<size, size>>),
      Op("draw_radial_gradient", "glow", "glow", 0, Fill(color_center, alpha),
         [cx |-> size \div 2, cy |-> size \div 2, radius |-> size \div 3,
          color_edge |-> color_edge]),
      Op("alpha_composite", "img", "glow", 0, <<>>, <<>>)>>

HorizontalOffsets == <<-120, -40, 40, 120>>

\* draw_posture_lines(draw, cx, cy, scale=1.4): TEAL is read when called.
draw_posture_lines(p) ==
    <<Op("line", "img", "guide-vertical", 0, Fill(p.TEAL, 60), <<200, 2>>)>>
    \o [k \in 1..4 |->
          Op("line", "img", "guide-horizontal", k - 1, Fill(p.TEAL, 40),
             <<HorizontalOffsets[k], 1>>)]

\* draw_arc_ring(draw, cx, cy, radius, width, color, start_deg, end_deg)
draw_arc_ring(idx, radius, width, color, start_deg, end_deg) ==
    Op("arc", "img", "ring", idx, Fill(color, 180),
       <<radius, width, start_deg, end_deg>>)

\* draw_figure(draw, cx, cy + 10, scale=1.5, color)
draw_figure(color) ==
    <<Op("ellipse", "img", "head", 0, Fill(color, 220), <<28>>),
      Op("rounded_rectangle", "img", "neck", 0, Fill(color, 200), <<8>>),
      Op("polygon", "img", "torso", 0, Fill(color, 180), <<36, 28>>),
      Op("rounded_rectangle", "img", "arm", 0, Fill(color, 160), <<-1>>),
      Op("rounded_rectangle", "img", "arm", 1, Fill(color, 160), <<1>>),
      Op("rounded_rectangle", "img", "leg", 0, Fill(color, 170), <<-1>>),
      Op("rounded_rectangle", "img", "leg", 1, Fill(color, 170), <<1>>)>>

num_vertebrae == 7
widths == <<42, 46, 50, 50, 46, 42, 34>>

draw_spine_icon_PerCount(color_top, color_bottom, p, fp) ==
    [k \in 1..(2 * num_vertebrae) |->
        LET i == (k - 1) \div 2
        IN  IF k % 2 = 1
            THEN Op("rounded_rectangle", "img", "vertebra", i,
                    Fill(lerp_color(color_top, color_bottom,
                                    Rat(i, num_vertebrae), fp.lerp), 200),
                    <<widths[i + 1]>>)
            ELSE Op("ellipse", "img", "vertebra-dot", i, Fill(p.WHITE, 120), <<3>>)]

\* draw_spine_icon(draw, cx, cy + 10, scale=1.2, color_top, color_bottom):
\* per vertebra i a capsule coloured lerp_color(top, bottom, i / 6) and a
\* white dot (WHITE is read when called).
draw_spine_icon(color_top, color_bottom, p, fp) ==
    [k \in 1..(2 * num_vertebrae) |->
        LET i == (k - 1) \div 2
        IN  IF k % 2 = 1
            THEN Op("rounded_rectangle", "img", "vertebra", i,
                    Fill(lerp_color(color_top, color_bottom,
                                    Rat(i, num_vertebrae - 1), fp.lerp), 200),
                    <<widths[i + 1]>>)
            ELSE Op("ellipse", "img", "vertebra-dot", i, Fill(p.WHITE, 120), <<3>>)]

\* cx + int(ring_r * cos(angle)), cy + int(ring_r * sin(angle)) for the
\* angles 0, 90, 180, 270: the offsets from the centre.
CardinalOffsets == <<<<380, 0>>, <<0, 380>>, <<-380, 0>>, <<0, -380>>>>

\* for angle_deg in [0, 90, 180, 270]: an ellipse filled
\* lerp_color(c1, c2, angle_deg / 360) + (alpha,)
CardinalDots(c1, c2, alpha, fp) ==
    [k \in 1..4 |->
        Op("ellipse", "img", "accent-dot", k - 1,
           Fill(lerp_color(c1, c2, Rat(k - 1, 4), fp.lerp), alpha),
           CardinalOffsets[k])]

\* for angle_deg in [0, 90, 180, 270]: an ellipse filled mono + (200,)
MonoDots(mono) ==
    [k \in 1..4 |->
        Op("ellipse", "img", "accent-dot", k - 1, Fill(mono, 200),
           CardinalOffsets[k])]

bright_teal == <<40, 220, 200>>
bright_indigo == <<130, 130, 255>>
DarkNear == <<4, 10, 16>>
DarkFar == <<6, 16, 24>>

\* generate_light_icon(size).  draw_spine_icon is called without colours:
\* its defaults TEAL and INDIGO were bound when the function was defined.
LightProgram(size, p, fp) ==
    BackgroundOps(size, p.DARK_BG, p.DARK_BG2, fp)
    \o GlowOps(size, p.TEAL, p.DARK_BG, 80)
    \o draw_posture_lines(p)
    \o <<draw_arc_ring(0, 380, 4, p.TEAL, -30, 210),
         draw_arc_ring(1, 378, 3, p.INDIGO, 180, 330),
         draw_arc_ring(2, 340, 2, p.TEAL, 45, 315)>>
    \o draw_figure(p.TEAL)
    \o draw_spine_icon(TEAL, INDIGO, p, fp)
    \o CardinalDots(p.TEAL, p.INDIGO, 200, fp)

\* generate_dark_icon(size)
DarkProgram(size, p, fp) ==
    BackgroundOps(size, DarkNear, DarkFar, fp)
    \o GlowOps(size, p.TEAL, DarkNear, 100)
    \o draw_posture_lines(p)
    \o <<draw_arc_ring(0, 380, 5, bright_teal, -30, 210),
         draw_arc_ring(1, 378, 3, bright_indigo, 180, 330),
         draw_arc_ring(2, 340, 2, bright_teal, 45, 315)>>
    \o draw_figure(bright_teal)
    \o draw_spine_icon(bright_teal, bright_indigo, p, fp)
    \o CardinalDots(bright_teal, bright_indigo, 220, fp)

TintedProgramWithGlow(size, p, fp) ==
    <<Op("new", "img", "background", 0, <<0, 0, 0, 0>>, <<size, size>>),
      Op("ellipse", "img", "background-circle", 0, <<0, 0, 0, 255>>, <<460>>)>>
    \o GlowOps(size, WHITE, BLACK, 80)
    \o [k \in 1..4 |->
          Op("line", "img", "guide-horizontal", k - 1, Fill(WHITE, 30),
             <<HorizontalOffsets[k], 1>>)]
    \o <<Op("line", "img", "guide-vertical", 0, Fill(WHITE, 40), <<280, 2>>),
         draw_arc_ring(0, 380, 4, WHITE, -30, 210),
         draw_arc_ring(1, 340, 2, WHITE, 45, 315)>>
    \o draw_figure(WHITE)
    \o draw_spine_icon(WHITE, WHITE, p, fp)
    \o MonoDots(WHITE)

\* generate_tinted_icon(size)
TintedProgram(size, p, fp) ==
    <<Op("new", "img", "background", 0, <<0, 0, 0, 0>>, <<size, size>>),
      Op("ellipse", "img", "background-circle", 0, <<0, 0, 0, 255>>, <<460>>)>>
    \o [k \in 1..4 |->
          Op("line", "img", "guide-horizontal", k - 1, Fill(WHITE, 30),
             <<HorizontalOffsets[k], 1>>)]
    \o <<Op("line", "img", "guide-vertical", 0, Fill(WHITE, 40), <<280, 2>>),
         draw_arc_ring(0, 380, 4, WHITE, -30, 210),
         draw_arc_ring(1, 340, 2, WHITE, 45, 315)>>
    \o draw_figure(WHITE)
    \o draw_spine_icon(WHITE, WHITE, p, fp)
    \o MonoDots(WHITE)

Variants == {"light", "dark", "tinted"}

Program(v, size, p, fp) ==
    CASE v = "light" -> LightProgram(size, p, fp)
      [] v = "dark" -> DarkProgram(size, p, fp)
      [] v = "tinted" -> TintedProgram(size, p, fp)

----------------------------------------------------------------------------
(* Executing a generator: ctx = [canvases, img, glow] is the image store   *)
(* and the generator's local variables img and glow (indices, 0 = unset).  *)

\* The whole nested loop of draw_radial_gradient (radius # 0).
GradientResult(px, g, fp) ==
    [q \in DOMAIN px |-> PixelStep(q[1], q[2], px[q], g, fp).out]

\* The call raises: dist / radius with radius = 0 on a non-empty image.
OpRaises(op) == op.prim = "draw_radial_gradient" /\ op.geom.radius = 0

\* One call of the generator's body applied to the store.
ApplyOp(ctx, op, call, v) ==
    LET cs == ctx.canvases
    IN  IF op.prim = "new"
        THEN [ctx EXCEPT
                !.canvases = Append(cs, [call |-> call, variant |-> v,
                                         kind |-> op.target,
                                         px |-> NewImage(op.geom[1], op.geom[2], op.fill),
                                         log |-> <<>>]),
                ![op.target] = Len(cs) + 1]
        ELSE IF op.prim = "draw_radial_gradient"
        THEN [ctx EXCEPT
                !.canvases[ctx[op.target]].px =
                    GradientResult(cs[ctx[op.target]].px,
                                   [cx |-> op.geom.cx, cy |-> op.geom.cy,
                                    radius |-> op.geom.radius,
                                    color_center |-> <<op.fill[1], op.fill[2], op.fill[3]>>,
                                    color_edge |-> op.geom.color_edge,
                                    alpha |-> op.fill[4]], ctx.fp)]
        ELSE IF op.prim = "alpha_composite"
        THEN [ctx EXCEPT
                !.canvases = Append(cs, [call |-> call, variant |-> v,
                                         kind |-> "img",
                                         px |-> cs[ctx.img].px,
                                         log |-> Append(cs[ctx.img].log,
                                                  [op EXCEPT !.geom =
                                                     [px |-> cs[ctx.glow].px,
                                                      log |-> cs[ctx.glow].log]])]),
                !.img = Len(cs) + 1]
        ELSE [ctx EXCEPT !.canvases[ctx.img].log = Append(@, op)]

\* What a generator returns: the image its local img names.
Returned(ctx) == [px |-> ctx.canvases[ctx.img].px, log |-> ctx.canvases[ctx.img].log]

----------------------------------------------------------------------------
(* SpecPipeline: generate_light_icon, generate_dark_icon and               *)
(* generate_tinted_icon called in any order, one call at a time, all with  *)
(* the same size argument; one action per call a generator makes.          *)

Palette0 == [SIZE |-> SIZE, TEAL |-> TEAL, INDIGO |-> INDIGO, DARK_BG |-> DARK_BG,
             DARK_BG2 |-> DARK_BG2, WHITE |-> WHITE]

None == [none |-> TRUE]
Sizes == {2, MaxDim, MaxDim + 3}

InitPipeline ==
    /\ pal = Palette0
    /\ cur \in [variant : {"none"}, size : Sizes, pc : {0}, img : {0}, glow : {0}]
    /\ canvases = <<>>
    /\ rendered = [v \in Variants |-> None]
    /\ ncalls = 0
    /\ fperr \in FpErrs
    /\ LerpIdle /\ CompIdle /\ GradIdle /\ SpineIdle /\ MainIdle

Ctx == [canvases |-> canvases, img |-> cur.img, glow |-> cur.glow, fp |-> fperr]

CurProgram == Program(cur.variant, cur.size, pal, fperr)

\* A generator is called.
GenCall(v) ==
    /\ cur.variant = "none"
    /\ ncalls < MaxCalls
    /\ ncalls' = ncalls + 1
    /\ cur' = [cur EXCEPT !.variant = v, !.pc = 1, !.img = 0, !.glow = 0]
    /\ UNCHANGED <<pal, canvases, rendered, fperr, lerpVars, compVars, gradVars, spineVars>>

\* The effect of the generator's next call on the images and its locals.
GenDraw ==
    /\ cur.variant # "none"
    /\ LET prog == CurProgram
       IN  /\ cur.pc <= Len(prog)
           /\ ~OpRaises(prog[cur.pc])
           /\ LET c == ApplyOp(Ctx, prog[cur.pc], ncalls, cur.variant)
              IN  /\ canvases' = c.canvases
                  /\ cur' = [cur EXCEPT !.pc = @ + 1, !.img = c.img, !.glow = c.glow]
    /\ UNCHANGED <<rendered, ncalls, fperr, lerpVars, compVars, gradVars, spineVars>>

GenStepRebindsTeal ==
    /\ GenDraw
    /\ pal' = IF cur.variant = "dark" THEN [pal EXCEPT !.TEAL = bright_teal] ELSE pal

\* The generator's next call; no statement of a generator assigns a
\* module-level name.
GenStep ==
    /\ GenDraw
    /\ UNCHANGED pal

\* draw_radial_gradient raises (size // 3 = 0): the exception leaves the
\* generator, which returns nothing; its local images are dropped.
GenRaise ==
    /\ cur.variant # "none"
    /\ LET prog == CurProgram
       IN  cur.pc <= Len(prog) /\ OpRaises(prog[cur.pc])
    /\ cur' = [cur EXCEPT !.variant = "none", !.pc = 0, !.img = 0, !.glow = 0]
    /\ canvases' = <<>>
    /\ UNCHANGED <<pal, rendered, ncalls, fperr, lerpVars, compVars, gradVars, spineVars>>

\* return img: the caller holds the returned image, the generator's other
\* local images are dropped.
GenReturn ==
    /\ cur.variant # "none"
    /\ cur.pc > Len(CurProgram)
    /\ rendered' = [rendered EXCEPT ![cur.variant] =
                       [call |-> ncalls, size |-> cur.size, image |-> Returned(Ctx)]]
    /\ cur' = [cur EXCEPT !.variant = "none", !.pc = 0, !.img = 0, !.glow = 0]
    /\ canvases' = <<>>
    /\ UNCHANGED <<pal, ncalls, fperr, lerpVars, compVars, gradVars, spineVars>>

NextPipeline ==
    \/ (\E v \in Variants : GenCall(v)) /\ UNCHANGED mainVars
    \/ GenStep /\ UNCHANGED mainVars
    \/ GenRaise /\ UNCHANGED mainVars
    \/ GenReturn /\ UNCHANGED mainVars

SpecPipeline == InitPipeline /\ [][NextPipeline]_vars

----------------------------------------------------------------------------
(* SpecSpine: one call of draw_spine_icon with any pair of colours, one    *)
(* action per iteration of its loop; spine.drawn is the sequence of draws  *)
(* made so far.                                                            *)

InitSpine ==
    /\ spine \in [color_top : Colors, color_bottom : Colors, i : {0},
                  drawn : {<<>>}, pc : {"loop"}]
    /\ fperr \in {f \in FpErrs : ~f.alpha}
    /\ LerpIdle /\ CompIdle /\ GradIdle /\ PipeIdle /\ MainIdle

\* for i in range(num_vertebrae): the capsule, then the centre dot.
SpineVertebra ==
    /\ spine.pc = "loop"
    /\ spine.i < num_vertebrae
    /\ LET ops == draw_spine_icon(spine.color_top, spine.color_bottom, Palette0, fperr)
       IN  spine' = [spine EXCEPT !.i = @ + 1,
                                  !.drawn = @ \o <<ops[2 * spine.i + 1],
                                                   ops[2 * spine.i + 2]>>]
    /\ UNCHANGED <<fperr, lerpVars, compVars, gradVars, pipeVars, mainVars>>

\* The loop is exhausted: the function returns.
SpineReturn ==
    /\ spine.pc = "loop"
    /\ spine.i = num_vertebrae
    /\ spine' = [spine EXCEPT !.pc = "done"]
    /\ UNCHANGED <<fperr, lerpVars, compVars, gradVars, pipeVars, mainVars>>

NextSpine == SpineVertebra \/ SpineReturn

SpecSpine == InitSpine /\ [][NextSpine]_vars

----------------------------------------------------------------------------
(* SpecMain: main().  It makes the asset directory, then for light, dark   *)
(* and tinted in turn calls the generator and saves the returned image,    *)
(* then writes Contents.json.  Any call into the imaging library, the file *)
(* system or json may raise; main and the generators contain no try, so    *)
(* the exception leaves main.  main.pc names the statement main is at:     *)
(* "makedirs", a variant (its generator call, then its save), "contents",  *)
(* "done" (returned) or "raised" (left by an exception).  The generators   *)
(* run with their default size, SIZE, for which the sizes here stand; the  *)
(* glow radius size // 3 is not 0 for it.                                  *)

MainSizes == Sizes \ {2}
NoRaise == [stage |-> "none", at |-> "none"]

InitMain ==
    /\ pal = Palette0
    /\ cur \in [variant : {"none"}, size : MainSizes, pc : {0}, img : {0}, glow : {0}]
    /\ canvases = <<>>
    /\ rendered = [v \in Variants |-> None]
    /\ ncalls = 0
    /\ fperr \in FpErrs
    /\ main = [pc |-> "makedirs", saved |-> {}, contents |-> FALSE, raised |-> NoRaise]
    /\ LerpIdle /\ CompIdle /\ GradIdle /\ SpineIdle

\* The statement after a variant's save.
NextStage(s) ==
    CASE s = "light" -> "dark"
      [] s = "dark" -> "tinted"
      [] s = "tinted" -> "contents"

\* main is left by an exception raised at stage s during `at`.
Raised(s, at) == [main EXCEPT !.pc = "raised", !.raised = [stage |-> s, at |-> at]]

\* os.makedirs(ASSET_DIR, exist_ok=True)
MainMakedirs ==
    /\ main.pc = "makedirs"
    /\ main' = [main EXCEPT !.pc = "light"]
    /\ UNCHANGED <<fperr, lerpVars, compVars, gradVars, pipeVars, spineVars>>

\* light = generate_light_icon(), dark = ..., tinted = ...: the call.
MainGenerate ==
    /\ main.pc \in Variants
    /\ cur.variant = "none"
    /\ rendered[main.pc] = None
    /\ ncalls' = ncalls + 1
    /\ cur' = [cur EXCEPT !.variant = main.pc, !.pc = 1, !.img = 0, !.glow = 0]
    /\ UNCHANGED <<pal, canvases, rendered, fperr, lerpVars, compVars, gradVars,
                   spineVars, mainVars>>

\* A handler around the variant that swallows the exception and goes on
\* with the next statement.
MainPrimitiveSkipped ==
    /\ cur.variant # "none"
    /\ cur.pc <= Len(CurProgram)
    /\ cur' = [cur EXCEPT !.variant = "none", !.pc = 0, !.img = 0, !.glow = 0]
    /\ canvases' = <<>>
    /\ main' = [main EXCEPT !.pc = NextStage(main.pc),
                            !.raised = [stage |-> main.pc, at |-> "render"]]
    /\ UNCHANGED <<pal, rendered, ncalls, fperr, lerpVars, compVars, gradVars, spineVars>>

\* The generator's next library call raises: the exception leaves the
\* generator (its images are dropped) and then main.
MainPrimitiveRaises ==
    /\ cur.variant # "none"
    /\ cur.pc <= Len(CurProgram)
    /\ cur' = [cur EXCEPT !.variant = "none", !.pc = 0, !.img = 0, !.glow = 0]
    /\ canvases' = <<>>
    /\ main' = Raised(main.pc, "render")
    /\ UNCHANGED <<pal, rendered, ncalls, fperr, lerpVars, compVars, gradVars, spineVars>>

\* light.save(light_path, "PNG") and its like return.
MainSave ==
    /\ main.pc \in Variants
    /\ cur.variant = "none"
    /\ rendered[main.pc] # None
    /\ main' = [main EXCEPT !.pc = NextStage(main.pc), !.saved = @ \cup {main.pc}]
    /\ UNCHANGED <<fperr, lerpVars, compVars, gradVars, pipeVars, spineVars>>

\* save raises.
MainSaveRaises ==
    /\ main.pc \in Variants
    /\ cur.variant = "none"
    /\ rendered[main.pc] # None
    /\ main' = Raised(main.pc, "save")
    /\ UNCHANGED <<fperr, lerpVars, compVars, gradVars, pipeVars, spineVars>>

\* update_contents_json() returns, then main returns.
MainUpdateContents ==
    /\ main.pc = "contents"
    /\ main' = [main EXCEPT !.pc = "done", !.contents = TRUE]
    /\ UNCHANGED <<fperr, lerpVars, compVars, gradVars, pipeVars, spineVars>>

\* os.makedirs, or open / json.dump in update_contents_json, raises.
MainIoRaises ==
    /\ main.pc \in {"makedirs", "contents"}
    /\ main' = Raised(main.pc, "io")
    /\ UNCHANGED <<fperr, lerpVars, compVars, gradVars, pipeVars, spineVars>>

NextMain ==
    \/ MainMakedirs
    \/ MainGenerate
    \/ GenStep /\ UNCHANGED mainVars
    \/ GenReturn /\ UNCHANGED mainVars
    \/ MainPrimitiveRaises
    \/ MainSave
    \/ MainSaveRaises
    \/ MainUpdateContents
    \/ MainIoRaises

SpecMain == InitMain /\ [][NextMain]_vars

----------------------------------------------------------------------------
(* Claims about the compositing step *)

\* C1: the written pixel is the integer "over" of the specification:
\* outA = a + floor(ea*(255-a)/255); (0,0,0,0) when outA = 0; otherwise each
\* channel is floor((paintC*a + floor(existC*ea*(255-a)/255)) / outA).
C1_OverOperator ==
    comp.out # <<>> =>
        LET e == comp.exist
            p == comp.paint
            a == comp.a
            keep == e[4] * (255 - a)
            outA == a + keep \div 255
        IN  /\ comp.out[4] = outA
            /\ outA = 0 => comp.out = <<0, 0, 0, 0>>
            /\ outA # 0 =>
                 \A i \in 1..3 :
                    comp.out[i] * outA <= p[i] * a + (e[i] * keep) \div 255
                    /\ p[i] * a + (e[i] * keep) \div 255 < (comp.out[i] + 1) * outA

\* C1 witness: a partial paint over a partially transparent pixel was written.
C1_Witness ==
    /\ comp.out # <<>>
    /\ comp.a \in 1..254 /\ comp.exist[4] \in 1..254
    /\ comp.paint # <<comp.exist[1], comp.exist[2], comp.exist[3]>>

\* C2 as stated: with paint alpha 0 the written pixel equals the existing
\* pixel, whatever the existing pixel is.
C2_AlphaZeroKeepsAnyPixel ==
    (comp.out # <<>> /\ comp.a = 0) => comp.out = comp.exist

\* C2 amended: with paint alpha 0 the written pixel equals the existing pixel
\* when its alpha is positive or it is already (0,0,0,0); an existing pixel
\* of alpha 0 is written as (0,0,0,0).
C2_AlphaZeroKeepsVisiblePixel ==
    (comp.out # <<>> /\ comp.a = 0) =>
        /\ (comp.exist[4] > 0 \/ comp.exist = <<0, 0, 0, 0>>) => comp.out = comp.exist
        /\ comp.exist[4] = 0 => comp.out = <<0, 0, 0, 0>>

\* C2 witness: paint alpha 0 over a partially transparent coloured pixel.
C2_Witness ==
    /\ comp.out # <<>> /\ comp.a = 0
    /\ comp.exist[4] \in 1..254 /\ comp.exist[1] > 0
    /\ comp.out = comp.exist

\* C3 as stated: every channel of the written pixel lies in 0..255.
C3_ChannelsInRange ==
    comp.out # <<>> => \A i \in 1..4 : comp.out[i] \in 0..255

\* C4: paint alpha 255 over an existing pixel of alpha 255 writes exactly
\* the paint colour with alpha 255.
C4_OpaqueOverOpaque ==
    (comp.out # <<>> /\ comp.a = 255 /\ comp.exist[4] = 255) =>
        comp.out = <<comp.paint[1], comp.paint[2], comp.paint[3], 255>>

\* C4 witness: an opaque paint was written over an opaque pixel of another colour.
C4_Witness ==
    /\ comp.out # <<>> /\ comp.a = 255 /\ comp.exist[4] = 255
    /\ comp.paint # <<comp.exist[1], comp.exist[2], comp.exist[3]>>
    /\ comp.exist[1] > 0

----------------------------------------------------------------------------
(* Claims about draw_radial_gradient *)

Dist2(p) == (p[1] - gargs.cx) * (p[1] - gargs.cx)
            + (p[2] - gargs.cy) * (p[2] - gargs.cy)

\* C6: with a positive radius R every pixel at distance >= R from the centre
\* receives paint alpha 0, and on a canvas filled with an opaque colour it
\* still holds exactly the fill.
C6_OutsideRadiusUnchanged ==
    gargs.radius > 0 =>
        /\ (glast # Idle /\ Dist2(<<glast.x, glast.y>>) >= gargs.radius * gargs.radius)
              => glast.a = 0
        /\ gargs.fill[4] = 255 =>
              \A p \in DOMAIN img :
                 Dist2(p) >= gargs.radius * gargs.radius => img[p] = gargs.fill

\* C6 witness: a finished draw with a visible glow on an opaque canvas that
\* changed a pixel inside the radius and scanned pixels at distance >= R.
C6_Witness ==
    /\ gpc = "done" /\ gargs.radius > 0 /\ gargs.fill[4] = 255 /\ gargs.alpha > 0
    /\ \E p \in DOMAIN img : Dist2(p) > gargs.radius * gargs.radius
    /\ \E p \in DOMAIN img : Dist2(p) = gargs.radius * gargs.radius
    /\ \E p \in DOMAIN img : img[p] # gargs.fill

CentreInside == gargs.cx \in 0..(gargs.w - 1) /\ gargs.cy \in 0..(gargs.h - 1)

CentreIsBlend ==
    img[<<gargs.cx, gargs.cy>>] = Composite(gargs.fill, gargs.color_center, gargs.alpha)

\* C7 as stated (for a positive radius): after the draw the centre pixel is
\* the composite of B at paint alpha P over the previous pixel, and over an
\* opaque background with P > 0 every channel that differs from B has moved
\* toward B, not past it.
C7_CentreMovesTowardB ==
    (gpc = "done" /\ CentreInside /\ gargs.radius > 0) =>
        LET c == img[<<gargs.cx, gargs.cy>>]
            A == gargs.fill
            B == gargs.color_center
        IN  /\ CentreIsBlend
            /\ (A[4] = 255 /\ gargs.alpha > 0) =>
                 \A i \in 1..3 :
                    /\ B[i] > A[i] => (A[i] < c[i] /\ c[i] <= B[i])
                    /\ B[i] < A[i] => (B[i] <= c[i] /\ c[i] < A[i])

\* C7 amended: the centre pixel is the composite of B at paint alpha P over
\* the previous pixel; over an opaque background with P > 0 every channel
\* lies between A and B, a channel with B < A moves strictly toward B, and a
\* channel with B > A moves exactly when (B - A) * P >= 255.
C7_CentreBlendBetween ==
    (gpc = "done" /\ CentreInside) =>
        LET c == img[<<gargs.cx, gargs.cy>>]
            A == gargs.fill
            B == gargs.color_center
        IN  /\ CentreIsBlend
            /\ (A[4] = 255 /\ gargs.alpha > 0) =>
                 /\ c[4] = 255
                 /\ \A i \in 1..3 :
                    /\ B[i] = A[i] => c[i] = A[i]
                    /\ B[i] > A[i] =>
                         /\ A[i] <= c[i] /\ c[i] <= B[i]
                         /\ c[i] > A[i] <=> (B[i] - A[i]) * gargs.alpha >= 255
                    /\ B[i] < A[i] => (B[i] <= c[i] /\ c[i] < A[i])

\* C7 witness: a finished draw of a partial glow over an opaque background
\* of another colour; the centre pixel changed.
C7_Witness ==
    /\ gpc = "done" /\ CentreInside
    /\ gargs.fill[4] = 255 /\ gargs.alpha \in 2..254
    /\ img[<<gargs.cx, gargs.cy>>] # gargs.fill
    /\ \E i \in 1..3 : gargs.color_center[i] < gargs.fill[i]
    /\ \E i \in 1..3 : gargs.color_center[i] > gargs.fill[i]

\* The rational peakAlpha * (1 - t) = AlphaNum / AlphaDen of the last pixel,
\* t = (dx^2 + dy^2) / radius^2, capped at 1 for a positive radius.
LastCapped == gargs.radius > 0
              /\ Dist2(<<glast.x, glast.y>>) >= gargs.radius * gargs.radius
AlphaDen == IF LastCapped THEN 1 ELSE gargs.radius * gargs.radius
AlphaNum == IF LastCapped THEN 0
            ELSE gargs.alpha * (AlphaDen - Dist2(<<glast.x, glast.y>>))

\* C8 as stated (for a positive radius and pixels whose t is an exact
\* double): the paint alpha is peakAlpha * (1 - t) rounded to the nearest
\* integer.
C8_AlphaRoundedToNearest ==
    (/\ glast # Idle /\ gargs.radius > 0
     /\ (LastCapped \/ ExactT(Dist2(<<glast.x, glast.y>>), gargs.radius))) =>
        /\ 2 * glast.a * AlphaDen - 2 * AlphaNum <= AlphaDen
        /\ 2 * AlphaNum - 2 * glast.a * AlphaDen <= AlphaDen

\* C8 amended: the paint alpha is int(peakAlpha * (1 - t)), the product
\* truncated toward zero (t is not capped for a negative radius); where the
\* product is an integer n # 0 and t is not an exact double, it is n or the
\* next integer toward zero.
C8_AlphaTruncated ==
    glast # Idle =>
        LET a == glast.a
            inexact == ~LastCapped
                       /\ ~ExactT(Dist2(<<glast.x, glast.y>>), gargs.radius)
        IN  \/ AlphaNum >= 0 /\ a * AlphaDen <= AlphaNum
                             /\ AlphaNum < (a + 1) * AlphaDen
            \/ AlphaNum < 0 /\ (a - 1) * AlphaDen < AlphaNum
                            /\ AlphaNum <= a * AlphaDen
            \/ /\ inexact /\ AlphaNum % AlphaDen = 0
               /\ \/ AlphaNum > 0 /\ (a + 1) * AlphaDen = AlphaNum
                  \/ AlphaNum < 0 /\ (a - 1) * AlphaDen = AlphaNum

\* C8 witness: a pixel strictly inside a positive radius whose product has a
\* fractional part of at least one half, painted with the truncated value.
C8_Witness ==
    /\ glast # Idle /\ gargs.radius > 0 /\ ~LastCapped
    /\ Dist2(<<glast.x, glast.y>>) > 0
    /\ 2 * (AlphaNum % AlphaDen) >= AlphaDen
    /\ glast.a = AlphaNum \div AlphaDen

\* C9 as stated: with a zero or negative radius the call raises and writes
\* no pixel.
C9_BadRadiusFailsFast ==
    gargs.radius <= 0 =>
        /\ gpc # "done"
        /\ gpos = 0
        /\ img = NewImage(gargs.w, gargs.h, gargs.fill)

----------------------------------------------------------------------------
(* Claims about lerp_color *)

\* C5: lerp_color(c1,c2,0) = c1, lerp_color(c1,c2,1) = c2, and for t in
\* {0, 1/2, 1} every channel of the result lies between the channels of c1
\* and c2.
C5_LerpEndpointsAndBetween ==
    lerpCall.out # <<>> =>
        LET c1 == lerpCall.c1
            c2 == lerpCall.c2
            t == lerpCall.t
            o == lerpCall.out
            lo(i) == IF c1[i] <= c2[i] THEN c1[i] ELSE c2[i]
            hi(i) == IF c1[i] <= c2[i] THEN c2[i] ELSE c1[i]
        IN  /\ t.num = 0 => o = c1
            /\ t.num = t.den => o = c2
            /\ (t.num = 0 \/ t.num = t.den \/ 2 * t.num = t.den) =>
                   \A i \in 1..3 : lo(i) <= o[i] /\ o[i] <= hi(i)

\* C5 witness: a midpoint interpolation of a decreasing channel whose exact
\* value is not an integer.
C5_Witness ==
    /\ lerpCall.out # <<>>
    /\ 2 * lerpCall.t.num = lerpCall.t.den
    /\ lerpCall.c1[1] > lerpCall.c2[1]
    /\ (lerpCall.c1[1] + lerpCall.c2[1]) % 2 = 1
    /\ lerpCall.out[1] < lerpCall.c1[1]

----------------------------------------------------------------------------
(* Claims about the variant generators *)

RECURSIVE RunFrom(_, _, _, _, _)
RunFrom(prog, k, ctx, call, v) ==
    IF k > Len(prog) THEN ctx
    ELSE RunFrom(prog, k + 1, ApplyOp(ctx, prog[k], call, v), call, v)

\* The image generate_light_icon(size) returns when it is the only call
\* made, with the module-level constants as the source sets them.
LightAlone(size, fp) ==
    Returned(RunFrom(LightProgram(size, Palette0, fp), 1,
                     [canvases |-> <<>>, img |-> 0, glow |-> 0, fp |-> fp],
                     1, "light"))

\* C10: whatever generators were called before, and however often, the image
\* the light generator returns is the one it returns when called alone, and
\* SIZE, TEAL, INDIGO, DARK_BG, DARK_BG2 and WHITE keep their values at
\* every step of every render.  (The returned image is compared whenever no
\* generator is running: it changes only when a generator returns.)
C10_VariantIndependence ==
    /\ pal = Palette0
    /\ (cur.variant = "none" /\ rendered["light"] # None) =>
          rendered["light"].image = LightAlone(rendered["light"].size, fperr)

\* C10 witness: all three variants were rendered, the light one after the
\* dark one and not as the first call.
C10_Witness ==
    /\ \A v \in Variants : rendered[v] # None
    /\ rendered["light"].call > rendered["dark"].call
    /\ rendered["light"].call > rendered["tinted"].call
    /\ Len(rendered["light"].image.log) > 0

----------------------------------------------------------------------------
(* Claims about the spine motif *)

\* The capsules drawn so far, in drawing order.
Capsules == SelectSeq(spine.drawn, LAMBDA op : op.part = "vertebra")

\* C12: in draw_spine_icon the k-th capsule drawn is capsule i = k - 1 with
\* alpha 200 and, per channel with top value a and bottom value b, the
\* truncation of a + (b - a) * i / 6: capsule 0 has exactly color_top,
\* capsule 6 exactly color_bottom, capsule 3 exactly the midpoint
\* int((a + b) / 2); for i in {1, 2, 4, 5}, where i / 6 is not an exact
\* double, a channel whose exact value is an integer q may come out q - 1.
\* When the function returns, exactly 7 capsules were drawn.
C12_SpineCapsuleColours ==
    /\ \A k \in 1..Len(Capsules) :
          LET i == k - 1
              c == Capsules[k].fill
          IN  /\ Capsules[k].idx = i
              /\ c[4] = 200
              /\ \A ch \in 1..3 :
                    LET a == spine.color_top[ch]
                        b == spine.color_bottom[ch]
                        n == 6 * a + (b - a) * i
                    IN  /\ i = 0 => c[ch] = a
                        /\ i = 6 => c[ch] = b
                        /\ i = 3 => c[ch] = (a + b) \div 2
                        /\ \/ 6 * c[ch] <= n /\ n < 6 * c[ch] + 6
                           \/ i \notin {0, 3, 6} /\ n = 6 * (c[ch] + 1)
    /\ spine.pc = "done" => Len(Capsules) = num_vertebrae

\* C12 witness: the call has returned after drawing teal-to-indigo capsules,
\* the midpoint of two channels not being an integer.
C12_Witness ==
    /\ spine.pc = "done"
    /\ spine.color_top = TEAL /\ spine.color_bottom = INDIGO
    /\ Capsules[4].fill = <<59, 143, 203, 200>>
    /\ Capsules[1].fill = <<20, 184, 166, 200>>
    /\ Capsules[7].fill = <<99, 102, 241, 200>>

----------------------------------------------------------------------------
(* Claims about main *)

\* The variants main produces after variant v.
Later(v) ==
    CASE v = "light" -> {"dark", "tinted"}
      [] v = "dark" -> {"tinted"}
      [] v = "tinted" -> {}

\* C13: once a library call of a generator or a save has raised while
\* variant v was being produced, main has been left by the exception and
\* nothing runs any more (no retry: no further generator call, no step of
\* any kind); v was not saved, no later variant was rendered or saved, and
\* Contents.json was not written, then or at any later time.
C13_FailurePropagates ==
    /\ [](main.raised.stage \in Variants =>
            /\ main.pc = "raised"
            /\ cur.variant = "none"
            /\ main.raised.stage \notin main.saved
            /\ \A w \in Later(main.raised.stage) :
                  rendered[w] = None /\ w \notin main.saved
            /\ ~main.contents)
    /\ [][main.raised.stage \in Variants =>
             UNCHANGED <<main, rendered, ncalls, cur, canvases>>]_vars

\* C13 witness: after the light icon was rendered and saved, a drawing call
\* of the dark generator raised part-way through its program.
C13_Witness ==
    /\ main.pc = "raised"
    /\ main.raised = [stage |-> "dark", at |-> "render"]
    /\ main.saved = {"light"}
    /\ rendered["light"] # None /\ rendered["dark"] = None
    /\ ncalls = 2

----------------------------------------------------------------------------
(* Claims about the drawing order and the images of a generator *)

\* The step of the composition a draw belongs to.
StageOf(op) ==
    CASE op.part \in {"background", "background-circle"} -> 1
      [] op.part = "glow" -> 2
      [] op.part \in {"guide-vertical", "guide-horizontal"} -> 3
      [] op.part = "ring" -> 4
      [] op.part \in {"head", "neck", "torso", "arm", "leg"} -> 5
      [] op.part \in {"vertebra", "vertebra-dot"} -> 6
      [] op.part = "accent-dot" -> 7

\* The draws made so far on the image the running generator's img names
\* (the glow appears as the alpha_composite that put it there).
Drawn == IF cur.variant = "none" \/ cur.img = 0 THEN <<>> ELSE canvases[cur.img].log

DrawnStages == {StageOf(Drawn[k]) : k \in 1..Len(Drawn)}

DrawnInOrder ==
    \A k \in 1..(Len(Drawn) - 1) : StageOf(Drawn[k]) <= StageOf(Drawn[k + 1])

\* The running generator has made its last call and is about to return.
Finished == cur.variant # "none" /\ cur.pc > Len(CurProgram)

\* The draw_radial_gradient calls the running generator has made.
GlowCalls ==
    SelectSeq(SubSeq(CurProgram, 1, cur.pc - 1),
              LAMBDA op : op.prim = "draw_radial_gradient")

\* One gradient call, centred, of radius size // 3, composited once.
OneCentredGlow ==
    /\ Len(GlowCalls) = 1
    /\ GlowCalls[1].geom.cx = cur.size \div 2
    /\ GlowCalls[1].geom.cy = cur.size \div 2
    /\ GlowCalls[1].geom.radius = cur.size \div 3
    /\ Cardinality({k \in 1..Len(Drawn) : Drawn[k].prim = "alpha_composite"}) = 1

FourAccentDots ==
    Cardinality({k \in 1..Len(Drawn) : Drawn[k].part = "accent-dot"}) = 4

\* C14 as stated: every generator, the tinted one included, makes all seven
\* steps in order, the glow among them.
C14_SevenStepsEveryVariant ==
    /\ DrawnInOrder
    /\ Finished => DrawnStages = 1..7 /\ OneCentredGlow /\ FourAccentDots

\* C14: at every point of every generator the draws made so far are in the
\* order background, glow, guide lines, rings, figure, spine, accent dots,
\* none before its predecessor; when the light or the dark generator is
\* about to return all seven steps have occurred, with exactly one
\* draw_radial_gradient call, centred at (size // 2, size // 2) with radius
\* size // 3, composited once, and four accent dots; when the tinted
\* generator is about to return the six steps other than the glow have
\* occurred and it has made no draw_radial_gradient call.
C14_OrderPerVariant ==
    /\ DrawnInOrder
    /\ Finished =>
          /\ FourAccentDots
          /\ IF cur.variant = "tinted"
             THEN DrawnStages = (1..7) \ {2} /\ GlowCalls = <<>>
             ELSE DrawnStages = 1..7 /\ OneCentredGlow

\* C14 witness: a tinted render is about to return after a light render
\* completed with its glow.
C14_Witness ==
    /\ Finished /\ cur.variant = "tinted"
    /\ 7 \in DrawnStages /\ 2 \notin DrawnStages
    /\ rendered["light"] # None
    /\ \E k \in 1..Len(rendered["light"].image.log) :
           StageOf(rendered["light"].image.log[k]) = 2

\* The images the running generator has created, by the local name each
\* was first bound to.
Kinds == [k \in 1..Len(canvases) |-> canvases[k].kind]

\* C15 as stated: a running generator has created at most one image, every
\* draw goes to it, and it was created by this call.
C15_OneCanvasInPlace ==
    cur.variant # "none" =>
        /\ Len(canvases) <= 1
        /\ \A k \in 1..Len(canvases) :
              canvases[k].call = ncalls /\ canvases[k].variant = cur.variant
        /\ cur.pc > 1 => Len(canvases) = 1 /\ cur.img = 1

\* C15: every image a running generator holds was created by that call (no
\* image outlives a call except the one returned, and none is handed to
\* another variant).  The tinted generator creates exactly one image and
\* draws everything on it.  The light and the dark generator create three:
\* the base, on which only the background rows are drawn; the transparent
\* glow layer, the only image draw_radial_gradient writes, on which no
\* primitive draws; and the image alpha_composite returns, on which all
\* later steps are drawn and which is returned.
C15_ImagesPerVariant ==
    /\ cur.variant = "none" => canvases = <<>>
    /\ cur.variant # "none" =>
          /\ \A k \in 1..Len(canvases) :
                canvases[k].call = ncalls /\ canvases[k].variant = cur.variant
          /\ cur.pc > 1 => cur.img = Len(Kinds) \/ cur.glow = Len(Kinds)
          /\ IF cur.variant = "tinted"
             THEN /\ cur.pc > 1 => Kinds = <<"img">> /\ cur.img = 1
                  /\ cur.glow = 0
             ELSE /\ Kinds \in {<<>>, <<"img">>, <<"img", "glow">>,
                                <<"img", "glow", "img">>}
                  /\ Len(Kinds) >= 2 => canvases[2].log = <<>>
                  /\ Len(Kinds) = 3 =>
                        /\ cur.img = 3 /\ cur.glow = 2
                        /\ \A k \in 1..Len(canvases[1].log) :
                              canvases[1].log[k].part = "background"
                        /\ canvases[1].px =
                              NewImage(cur.size, cur.size, canvases[1].px[<<0, 0>>])
                        /\ canvases[2].px #
                              NewImage(cur.size, cur.size, <<0, 0, 0, 0>>)
                  /\ Finished => Len(Kinds) = 3

\* C15 witness: the dark generator is about to return holding its three
\* images, the glow layer painted, after the light icon was rendered.
C15_Witness ==
    /\ Finished /\ cur.variant = "dark"
    /\ Len(canvases) = 3
    /\ canvases[2].px # NewImage(cur.size, cur.size, <<0, 0, 0, 0>>)
    /\ Len(canvases[3].log) > Len(canvases[1].log)
    /\ rendered["light"] # None

====
